---- MODULE Spec2Model ----
(***************************************************************************)
(* Employee-management microservice: the request pipeline                  *)
(*   handler (validation) -> service (business defaults) -> repository     *)
(*   (SQL statements against employee.employees).                          *)
(*                                                                         *)
(* Representation.  A Go string whose characters the code inspects (the    *)
(* id path segment, email, first and last name) is a sequence of one-      *)
(* character strings; a string the code only compares or stores is a TLA+  *)
(* string.  A time is a natural number; ZeroTime is Go's zero time.Time.   *)
(* The storage is assumed reachable: transport failures are not modelled.  *)
(***************************************************************************)
EXTENDS Integers, Sequences, FiniteSets, TLC

\* ------------------------------------------------------------------ bounds
NumWorkers == 2     \* requests that can be in flight at once
MaxId      == 2     \* values the identity sequence hands out in a run
MaxClock   == 4     \* timestamps the storage clock hands out in a run

Workers == 1..NumWorkers

\* --------------------------------------------------------------- constants
ZeroTime == 0

StatusActive     == "ACTIVE"
StatusOnVacation == "ON_VACATION"
StatusRetired    == "RETIRED"
EmployeeStatus   == {StatusActive, StatusOnVacation, StatusRetired}

ErrNone                        == "nil"
ErrEmailAlreadyExists          == "email already exists"
ErrEmployeeNumberAlreadyExists == "employee number already exists"
ErrEmployeeAlreadyExists       == "employee already exists"
ErrEmployeeNotFound            == "employee not found"
ErrUpdatedTimestamp            == "failed to get updated timestamp"
ErrReferenced == "employee has related records and cannot be deleted"

EmailKey          == "employees_email_key"
EmployeeNumberKey == "employees_employee_number_key"
PrimaryKey        == "employees_pkey"

StatusOK                  == 200
StatusCreated             == 201
StatusNoContent           == 204
StatusBadRequest          == 400
StatusNotFound            == 404
StatusConflict            == 409
StatusInternalServerError == 500

\* ------------------------------------------------------------------ strings
Empty == << >>

AlphaChars  == {"a", "b", "x", "i", "o"}
DigitChars  == {"0", "1", "2", "3", "4", "5", "6", "7", "8", "9"}
LocalChars  == AlphaChars \cup DigitChars \cup {".", "_", "%", "+", "-"}
DomainChars == AlphaChars \cup DigitChars \cup {".", "-"}
SpaceChars  == {" ", "\t", "\n", "\r"}

AllIn(s, lo, hi, chars) == \A k \in lo..hi : s[k] \in chars

\* emailRegex: ^[a-zA-Z0-9._%+-]+@[a-zA-Z0-9.-]+\.[a-zA-Z]{2,}$
emailRegexMatch(s) ==
    \E at \in 2..Len(s) : \E dot \in (at + 2)..(Len(s) - 2) :
        /\ s[at] = "@"
        /\ AllIn(s, 1, at - 1, LocalChars)
        /\ AllIn(s, at + 1, dot - 1, DomainChars)
        /\ s[dot] = "."
        /\ AllIn(s, dot + 1, Len(s), AlphaChars)

\* A dot-atom of net/mail: no leading, trailing or doubled dot.
DotAtom(s, lo, hi) ==
    /\ lo <= hi
    /\ s[lo] # "."
    /\ s[hi] # "."
    /\ \A k \in lo..(hi - 1) : ~(s[k] = "." /\ s[k + 1] = ".")

\* mail.ParseAddress on a string of LocalChars, DomainChars and "@":
\* an addr-spec, dot-atom "@" dot-atom, with exactly one "@".
ParseAddressOk(s) ==
    \E at \in 1..Len(s) :
        /\ s[at] = "@"
        /\ \A k \in 1..Len(s) : s[k] = "@" => k = at
        /\ DotAtom(s, 1, at - 1)
        /\ AllIn(s, 1, at - 1, LocalChars)
        /\ DotAtom(s, at + 1, Len(s))
        /\ AllIn(s, at + 1, Len(s), DomainChars)

IsValidEmail(email) == ParseAddressOk(email) /\ emailRegexMatch(email)

\* strings.TrimSpace(s) == ""
TrimSpaceIsEmpty(s) == AllIn(s, 1, Len(s), SpaceChars)

\* ------------------------------------------------------------ Go int
\* A Go int (64 bits, two's complement) is four 16-bit limbs, least
\* significant first, so that the wrap-around of its arithmetic is exact.
Limb == 65536

\* The int of a small integer n (its magnitude below 2^31).
FromInt(n) ==
    IF n >= 0 THEN << n % Limb, n \div Limb, 0, 0 >>
    ELSE << n % Limb, (n \div Limb) % Limb, Limb - 1, Limb - 1 >>

IsNegative(v) == v[4] >= Limb \div 2

\* v < n and v > n, for 0 <= n < 2^16
LessThan(v, n) ==
    IsNegative(v) \/ (v[2] = 0 /\ v[3] = 0 /\ v[4] = 0 /\ v[1] < n)
GreaterThan(v, n) ==
    ~IsNegative(v) /\ (v[2] > 0 \/ v[3] > 0 \/ v[4] > 0 \/ v[1] > n)

\* v - 1
Dec(v) ==
    IF v[1] > 0 THEN << v[1] - 1, v[2], v[3], v[4] >>
    ELSE IF v[2] > 0 THEN << Limb - 1, v[2] - 1, v[3], v[4] >>
    ELSE IF v[3] > 0 THEN << Limb - 1, Limb - 1, v[3] - 1, v[4] >>
    ELSE IF v[4] > 0 THEN << Limb - 1, Limb - 1, Limb - 1, v[4] - 1 >>
    ELSE << Limb - 1, Limb - 1, Limb - 1, Limb - 1 >>

\* The limbs of v * k for v >= 0 and 0 <= k < 2^15, a fifth limb holding
\* what does not fit in 64 bits.
Product(v, k) ==
    LET p1 == v[1] * k
        p2 == v[2] * k + (p1 \div Limb)
        p3 == v[3] * k + (p2 \div Limb)
        p4 == v[4] * k + (p3 \div Limb)
    IN  << p1 % Limb, p2 % Limb, p3 % Limb, p4 % Limb, p4 \div Limb >>

\* v * k as Go computes it: the low 64 bits of the product.
Mul(v, k) == SubSeq(Product(v, k), 1, 4)

\* The value of an int in 0 .. 2^31 - 1.
IsSmall(v) == v[3] = 0 /\ v[4] = 0 /\ v[2] < Limb \div 2
Small(v) == v[1] + Limb * v[2]

\* v * k + d for a v of 64 bits taken as unsigned, 0 <= k < 2^15 and
\* 0 <= d < 2^15: four limbs and a fifth holding what does not fit.
MulAdd(v, k, d) ==
    LET p1 == v[1] * k + d
        p2 == v[2] * k + (p1 \div Limb)
        p3 == v[3] * k + (p2 \div Limb)
        p4 == v[4] * k + (p3 \div Limb)
    IN  << p1 % Limb, p2 % Limb, p3 % Limb, p4 % Limb, p4 \div Limb >>

\* -v in two's complement: the complement of v - 1.
Neg(v) ==
    IF v = << 0, 0, 0, 0 >> THEN v
    ELSE [i \in 1..4 |-> Limb - 1 - Dec(v)[i]]

\* ------------------------------------------------------------ validator
ErrorDetail(field, message, rejected) ==
    [field |-> field, message |-> message, rejectedValue |-> rejected]

DigitVal(c) ==
    CASE c = "0" -> 0 [] c = "1" -> 1 [] c = "2" -> 2 [] c = "3" -> 3
      [] c = "4" -> 4 [] c = "5" -> 5 [] c = "6" -> 6 [] c = "7" -> 7
      [] c = "8" -> 8 [] c = "9" -> 9

\* strconv.ParseUint(s, 10, 64) on a string of digits: the value as 64
\* bits, and whether it went past 2^64 - 1 on the way.
RECURSIVE DigitsValue(_)
DigitsValue(s) ==
    IF s = Empty THEN [over |-> FALSE, val |-> << 0, 0, 0, 0 >>]
    ELSE LET head == DigitsValue(SubSeq(s, 1, Len(s) - 1))
             next == MulAdd(head.val, 10, DigitVal(s[Len(s)]))
         IN  [over |-> head.over \/ next[5] # 0, val |-> SubSeq(next, 1, 4)]

\* int64(1 << 63) as the unsigned cutoff of strconv.ParseInt
Cutoff == << 0, 0, 0, Limb \div 2 >>

\* strconv.ParseInt(s, 10, 64): an optional sign, then one or more decimal
\* digits; a value outside -2^63 .. 2^63 - 1 is a range error.  val is the
\* int64 returned with a nil error.
ParseInt(s) ==
    LET signed == s # Empty /\ s[1] \in {"+", "-"}
        digits == IF signed THEN Tail(s) ELSE s
        neg    == signed /\ s[1] = "-"
        un     == DigitsValue(digits)
    IN  IF digits = Empty \/ ~AllIn(digits, 1, Len(digits), DigitChars)
        THEN [ok |-> FALSE, val |-> FromInt(0)]
        ELSE IF \/ un.over
                \/ ~neg /\ IsNegative(un.val)
                \/ neg /\ IsNegative(un.val) /\ un.val # Cutoff
        THEN [ok |-> FALSE, val |-> FromInt(0)]
        ELSE [ok |-> TRUE, val |-> IF neg THEN Neg(un.val) ELSE un.val]

\* Mutant: a value that is not positive is returned as it was parsed.
ValidateID_NoSignCheck(idStr) ==
    LET p == ParseInt(idStr)
    IN  IF ~p.ok
        THEN [id |-> FromInt(0),
              errs |-> << ErrorDetail("id", "ID must be a valid integer", idStr) >>]
        ELSE [id |-> p.val, errs |-> << >>]

\* ValidateID: id is the int64 it returns.
ValidateID(idStr) ==
    LET p == ParseInt(idStr)
    IN  IF ~p.ok
        THEN [id |-> FromInt(0),
              errs |-> << ErrorDetail("id", "ID must be a valid integer", idStr) >>]
        ELSE IF ~GreaterThan(p.val, 0)
        THEN [id |-> FromInt(0),
              errs |-> << ErrorDetail("id", "ID must be a positive number", Empty) >>]
        ELSE [id |-> p.val, errs |-> << >>]

\* Mutant: the names are compared with "" as they came, untrimmed.
ValidateEmployee_Untrimmed(email, employeeNumber, firstName, lastName) ==
    LET e1 == IF email = Empty
              THEN << ErrorDetail("email", "Email is required", Empty) >>
              ELSE IF ~IsValidEmail(email)
              THEN << ErrorDetail("email", "Email format is invalid", email) >>
              ELSE << >>
        e2 == IF employeeNumber = ""
              THEN << ErrorDetail("employeeNumber", "Employee number is required", Empty) >>
              ELSE << >>
        e3 == IF firstName = Empty
              THEN << ErrorDetail("firstName", "First name is required", Empty) >>
              ELSE << >>
        e4 == IF lastName = Empty
              THEN << ErrorDetail("lastName", "Last name is required", Empty) >>
              ELSE << >>
        errors == e1 \o e2 \o e3 \o e4
    IN  [IsValid |-> errors = << >>, Errors |-> errors]

\* Mutant: validation stops at the first field that fails.
ValidateEmployee_FirstOnly(email, employeeNumber, firstName, lastName) ==
    LET errors ==
            IF email = Empty
            THEN << ErrorDetail("email", "Email is required", Empty) >>
            ELSE IF ~IsValidEmail(email)
            THEN << ErrorDetail("email", "Email format is invalid", email) >>
            ELSE IF employeeNumber = ""
            THEN << ErrorDetail("employeeNumber", "Employee number is required", Empty) >>
            ELSE IF TrimSpaceIsEmpty(firstName)
            THEN << ErrorDetail("firstName", "First name is required", Empty) >>
            ELSE IF TrimSpaceIsEmpty(lastName)
            THEN << ErrorDetail("lastName", "Last name is required", Empty) >>
            ELSE << >>
    IN  [IsValid |-> errors = << >>, Errors |-> errors]

\* ValidateEmployee: every field error, in the order email, employeeNumber,
\* firstName, lastName.
ValidateEmployee(email, employeeNumber, firstName, lastName) ==
    LET e1 == IF email = Empty
              THEN << ErrorDetail("email", "Email is required", Empty) >>
              ELSE IF ~IsValidEmail(email)
              THEN << ErrorDetail("email", "Email format is invalid", email) >>
              ELSE << >>
        e2 == IF employeeNumber = ""
              THEN << ErrorDetail("employeeNumber", "Employee number is required", Empty) >>
              ELSE << >>
        e3 == IF TrimSpaceIsEmpty(firstName)
              THEN << ErrorDetail("firstName", "First name is required", Empty) >>
              ELSE << >>
        e4 == IF TrimSpaceIsEmpty(lastName)
              THEN << ErrorDetail("lastName", "Last name is required", Empty) >>
              ELSE << >>
        errors == e1 \o e2 \o e3 \o e4
    IN  [IsValid |-> errors = << >>, Errors |-> errors]

\* --------------------------------------------------------------- models
ZeroEmployee ==
    [id |-> 0, firstName |-> Empty, lastName |-> Empty, email |-> Empty,
     employeeNumber |-> "", position |-> "", department |-> "", status |-> "",
     hireDate |-> ZeroTime, createdAt |-> ZeroTime, updatedAt |-> ZeroTime]

\* ------------------------------------------------------------------ api
Response(code, message, errors, hasBody, body) ==
    [code |-> code, message |-> message, errors |-> errors,
     hasBody |-> hasBody, body |-> body]

NoResponse == Response(0, "", << >>, FALSE, ZeroEmployee)

ValidationError(code, message, errors) ==
    Response(code, message, errors, FALSE, ZeroEmployee)
Error(code, message)         == Response(code, message, << >>, FALSE, ZeroEmployee)
InternalServerError(message) == Error(StatusInternalServerError, message)
BadRequest(message)          == Error(StatusBadRequest, message)
NotFound(message)            == Error(StatusNotFound, message)
Conflict(message)            == Error(StatusConflict, message)
JSON(code, body)             == Response(code, "", << >>, TRUE, body)
Status(code)                 == Response(code, "", << >>, FALSE, ZeroEmployee)

\* The filters map: for each key whether it is present, and its value.
Filter(ok, v) == [ok |-> ok, v |-> v]
Absent == Filter(FALSE, "")
Filters(department, status, position) ==
    [department |-> department, status |-> status, position |-> position]

\* A Go slice of employees: nil or not, and its elements.
NilSlice == [isNil |-> TRUE, items |-> << >>]
Append1(slice, x) == [isNil |-> FALSE, items |-> Append(slice.items, x)]

\* api.PaginationMeta
PaginationMeta(currentPage, pageSize, totalPages, totalRecords) ==
    [currentPage |-> currentPage, pageSize |-> pageSize,
     totalPages |-> totalPages, totalRecords |-> totalRecords]

NoPagination == PaginationMeta(FromInt(0), 0, 0, 0)

\* What GetAllEmployees writes: api.PaginatedResponse, or gin.H{"error": ...}
ListResponse(code, error, data, pagination) ==
    [code |-> code, error |-> error, data |-> data, pagination |-> pagination]

NoListResponse == ListResponse(0, "", NilSlice, NoPagination)

\* --------------------------------------------------- storage: the table
\* Mutant: employee_number is not declared UNIQUE.
UniqueViolations_EmailOnly(tbl, row) ==
    {c \in {EmailKey} : \E r \in tbl : r.id # row.id /\ r.email = row.email}

\* employee.employees: UNIQUE (email), UNIQUE (employee_number); the set of
\* constraints a row would violate next to the other rows of tbl.
UniqueViolations(tbl, row) ==
    {c \in {EmailKey} : \E r \in tbl : r.id # row.id /\ r.email = row.email}
    \cup
    {c \in {EmployeeNumberKey} :
        \E r \in tbl : r.id # row.id /\ r.employeeNumber = row.employeeNumber}

Ids(tbl) == {r.id : r \in tbl}
RowOf(tbl, id) == CHOOSE r \in tbl : r.id = id

\* The row INSERT stores: id from the identity sequence, whose last value
\* is s; created_at and updated_at from their DEFAULT CURRENT_TIMESTAMP.
InsertedRow(e, s, now) ==
    [e EXCEPT !.id = s + 1, !.createdAt = now, !.updatedAt = now]

\* Mutant: the SET list leaves updated_at out.
UpdatedRow_StaleUpdatedAt(old, e, now) ==
    [old EXCEPT !.firstName = e.firstName, !.lastName = e.lastName,
                !.email = e.email, !.employeeNumber = e.employeeNumber,
                !.position = e.position, !.department = e.department,
                !.status = e.status]

\* The row UPDATE ... SET writes over old: hire_date and created_at are not
\* in the SET list.
UpdatedRow(old, e, now) ==
    [old EXCEPT !.firstName = e.firstName, !.lastName = e.lastName,
                !.email = e.email, !.employeeNumber = e.employeeNumber,
                !.position = e.position, !.department = e.department,
                !.status = e.status, !.updatedAt = now]

\* ------------------------------------------------------- request inputs
DigitOf(n) == CHOOSE c \in DigitChars : DigitVal(c) = n

\* The raw :id path segment: every identifier the sequence can hand out,
\* one past it, a non-positive integer and a non-integer.
IdInputs ==
    {<< DigitOf(n) >> : n \in 0..(MaxId + 1)} \cup {<< "x" >>}

EmailA == << "a", "@", "x", ".", "i", "o" >>
EmailB == << "b", "@", "x", ".", "i", "o" >>
NameA  == << "a" >>
NameB  == << "b" >>

Body(first, last, email, number, position, department, status, hireDate) ==
    [id |-> 0, firstName |-> first, lastName |-> last, email |-> email,
     employeeNumber |-> number, position |-> position,
     department |-> department, status |-> status, hireDate |-> hireDate,
     createdAt |-> ZeroTime, updatedAt |-> ZeroTime]

\* The JSON bodies clients send.  Every field takes two values or more and
\* each email meets each employee number; status and hireDate are whatever
\* the client sent (models.Employee binds any string as status).  The last
\* three fail ValidateEmployee.
Bodies ==
    {Body(NameA, NameB, EmailA, "E1", "dev", "A", StatusOnVacation, ZeroTime),
     Body(NameB, NameA, EmailB, "E2", "ops", "B", StatusRetired, 99),
     Body(NameA, NameA, EmailA, "E2", "dev", "B", "FIRED", ZeroTime),
     Body(NameB, NameB, EmailB, "E1", "ops", "A", "", 99),
     Body(NameA, NameB, Empty, "E1", "dev", "A", StatusActive, ZeroTime),
     Body(<< " " >>, Empty, << "a", "@", "x" >>, "", "dev", "A", "", ZeroTime),
     Body(NameA, NameB, << "a", ".", "@", "x", ".", "i", "o" >>, "E1", "dev", "A",
          StatusActive, ZeroTime)}

\* ---------------------------------------------------------------- state
VARIABLES
    table,      \* the rows of employee.employees
    seq,        \* last value of the identity sequence of column id
    clock,      \* last timestamp the clock handed out
    pc,         \* per worker: where its request stands
    req,        \* per worker: the models.Employee of its handler
    txTime,     \* per worker: CURRENT_TIMESTAMP of the statement it sent
    snap,       \* per worker: the rows that statement's snapshot holds
    resp,       \* per worker: the response written for its request
    issued,     \* history: identifiers successful Creates returned
    modified,   \* history: identifiers a successful Update or Delete hit
    served,     \* history: per worker, the request its response answers
    list,       \* per worker: its listing request, from query to response
    referenced, \* identifiers that rows of other tables refer to
    otherKeys,  \* unique constraints on the table besides the two declared
    validated,  \* the last call of a validator: its arguments and its result
    written     \* per worker: the responses written for its latest request

vars ==
    << table, seq, clock, pc, req, txTime, snap, resp, issued, modified, served,
       list, referenced, otherKeys, validated, written >>

\* No validator has been called on its own yet.
NoValidation == [fn |-> "", args |-> << >>, result |-> << >>]

\* api.PaginationQuery as the query string gives it: whether page and
\* page_size are integers, their values (0 when left out), and the filters.
Query(parses, page, pageSize, department, status, position) ==
    [parses |-> parses, page |-> page, pageSize |-> pageSize,
     department |-> department, status |-> status, position |-> position]

NoQuery == Query(TRUE, FromInt(0), FromInt(0), "", "", "")

\* A call of EmployeeService.FindAll: who called, with what, what the
\* service passed to the repository, what came back and what was written.
Call(via, query, page, pageSize, filters, limit, offset, employees, total, err, response) ==
    [via |-> via, query |-> query, page |-> page, pageSize |-> pageSize,
     filters |-> filters, limit |-> limit, offset |-> offset,
     employees |-> employees, total |-> total, err |-> err,
     response |-> response]

NoCall ==
    Call("", NoQuery, FromInt(0), FromInt(0), Filters(Absent, Absent, Absent),
         0, FromInt(0), NilSlice, 0, ErrNone, NoListResponse)

RequestOf(method, path, e) == [method |-> method, path |-> path, e |-> e]

\* The request of worker w is noted when hist holds: runs of one request at
\* a time keep this history, interleaved runs leave it out.
Serve(w, hist, method, path, e) ==
    served' = IF hist THEN [served EXCEPT ![w] = RequestOf(method, path, e)]
              ELSE served

Init ==
    /\ table = {}
    /\ seq = 0
    /\ clock = 1
    /\ pc = [w \in Workers |-> "idle"]
    /\ req = [w \in Workers |-> ZeroEmployee]
    /\ txTime = [w \in Workers |-> ZeroTime]
    /\ snap = [w \in Workers |-> {}]
    /\ resp = [w \in Workers |-> NoResponse]
    /\ issued = {}
    /\ modified = {}
    /\ served = [w \in Workers |-> RequestOf("", Empty, ZeroEmployee)]
    /\ list = [w \in Workers |-> NoCall]
    /\ referenced = {}
    /\ otherKeys = {}
    /\ validated = NoValidation
    /\ written = [w \in Workers |-> << >>]

\* The handler returns: its response is written and the worker is free.
\* c.Errors once the handler has returned: no handler calls c.Error.
ContextErrors == << >>

\* Mutant: the middleware writes its response after every handler.
ErrorHandler_Always(ws, errors) ==
    Append(ws, Error(StatusInternalServerError, "Internal server error"))

\* middleware.ErrorHandler around a handler that wrote the responses ws:
\* after c.Next() it writes a 500 of its own when c.Errors is not empty.
ErrorHandler(ws, errors) ==
    IF Len(errors) > 0
    THEN Append(ws, Error(StatusInternalServerError, "Internal server error"))
    ELSE ws

\* The responses the client of worker w is sent: those of the handler, then
\* the middleware's.
Written(w, ws) ==
    written' = [written EXCEPT ![w] = ErrorHandler(ws, ContextErrors)]

Reply(w, r) ==
    /\ Written(w, << r >>)
    /\ pc' = [pc EXCEPT ![w] = "idle"]
    /\ req' = [req EXCEPT ![w] = ZeroEmployee]
    /\ txTime' = [txTime EXCEPT ![w] = ZeroTime]
    /\ snap' = [snap EXCEPT ![w] = {}]
    /\ resp' = [resp EXCEPT ![w] = r]

\* The handler calls into the repository and a statement is sent.  The
\* statement runs in its own transaction: CURRENT_TIMESTAMP is the start of
\* that transaction, its snapshot the rows committed by then.
Send(w, stmt, e) ==
    /\ clock < MaxClock
    /\ clock' = clock + 1
    /\ pc' = [pc EXCEPT ![w] = stmt]
    /\ req' = [req EXCEPT ![w] = e]
    /\ txTime' = [txTime EXCEPT ![w] = clock + 1]
    /\ snap' = [snap EXCEPT ![w] = table]
    /\ resp' = [resp EXCEPT ![w] = NoResponse]
    /\ written' = [written EXCEPT ![w] = << >>]

\* ------------------------------------------------------------- service
\* Mutant: the defaults are applied only to fields the caller left empty.
ServiceCreate_KeepSupplied(e, now) ==
    [e EXCEPT !.status = IF e.status = "" THEN StatusActive ELSE e.status,
              !.hireDate = IF e.hireDate = ZeroTime THEN now ELSE e.hireDate]

\* EmployeeService.Create, up to the repository call.
ServiceCreate(e, now) == [e EXCEPT !.status = StatusActive, !.hireDate = now]

\* EmployeeService.FindAll: page and pageSize after "validate and set
\* defaults", and the offset computed from them, all Go ints.
ServicePage(page) == IF LessThan(page, 1) THEN FromInt(1) ELSE page

ServicePageSize(pageSize) ==
    LET defaulted == IF LessThan(pageSize, 1) THEN FromInt(10) ELSE pageSize
    IN  IF GreaterThan(defaulted, 100) THEN FromInt(100) ELSE defaulted

ServiceOffset(page, pageSize) == Mul(Dec(page), Small(pageSize))

\* ---------------------------------------------------------- repository
\* Mutant: the two constraint names are matched to each other's error.
CreateError_Swapped(constraintName) ==
    CASE constraintName = EmailKey -> ErrEmployeeNumberAlreadyExists
      [] constraintName = EmployeeNumberKey -> ErrEmailAlreadyExists
      [] OTHER -> ErrEmployeeAlreadyExists

\* employeeRepository.Create: the error for a 23505 on the given constraint.
CreateError(constraintName) ==
    CASE constraintName = EmailKey -> ErrEmailAlreadyExists
      [] constraintName = EmployeeNumberKey -> ErrEmployeeNumberAlreadyExists
      [] OTHER -> ErrEmployeeAlreadyExists

\* Mutant: the identifier is MAX(id) + 1 instead of the sequence's value.
Create_MaxPlusOne(tbl, s, e, now, fired) ==
    LET top  == IF tbl = {} THEN 0
                ELSE CHOOSE i \in Ids(tbl) : \A j \in Ids(tbl) : j <= i
        row  == InsertedRow(e, top, now)
        viol == UniqueViolations(tbl, row) \cup fired
    IN  IF viol = {}
        THEN {[tbl |-> tbl \cup {row}, seq |-> s + 1, e |-> row, err |-> ErrNone]}
        ELSE {[tbl |-> tbl, seq |-> s + 1, e |-> e, err |-> CreateError(c)] :
                c \in viol}

\* employeeRepository.Create on table tbl with the sequence at s: the
\* outcomes, one for each constraint the storage can report.  The sequence
\* advances whether or not the row is stored.  fired holds the constraints
\* other than the two declared ones that the row violates.
Create(tbl, s, e, now, fired) ==
    LET row  == InsertedRow(e, s, now)
        viol == UniqueViolations(tbl, row) \cup fired
    IN  IF viol = {}
        THEN {[tbl |-> tbl \cup {row}, seq |-> s + 1, e |-> row, err |-> ErrNone]}
        ELSE {[tbl |-> tbl, seq |-> s + 1, e |-> e, err |-> CreateError(c)] :
                c \in viol}

\* Mutant: Scan reads first_name and last_name into each other's field.
FindByID_Swapped(tbl, id) ==
    IF id \in Ids(tbl)
    THEN [emp |-> [RowOf(tbl, id) EXCEPT !.firstName = RowOf(tbl, id).lastName,
                                         !.lastName = RowOf(tbl, id).firstName],
          err |-> ErrNone]
    ELSE [emp |-> ZeroEmployee, err |-> ErrEmployeeNotFound]

\* employeeRepository.FindByID
FindByID(tbl, id) ==
    IF id \in Ids(tbl)
    THEN [emp |-> RowOf(tbl, id), err |-> ErrNone]
    ELSE [emp |-> ZeroEmployee, err |-> ErrEmployeeNotFound]

\* The WHERE clause FindAll and Count build: one condition for each filter
\* that is present and not "", joined by AND.
Where(r, filters) ==
    /\ (filters.department.ok /\ filters.department.v # "") =>
          r.department = filters.department.v
    /\ (filters.status.ok /\ filters.status.v # "") =>
          r.status = filters.status.v
    /\ (filters.position.ok /\ filters.position.v # "") =>
          r.position = filters.position.v

\* The orders in which the storage may hand out rows that the ORDER BY
\* clause does not tell apart: every arrangement of their identifiers.
Orders(ids) ==
    {o \in [1..Cardinality(ids) -> ids] :
        \A i, j \in 1..Cardinality(ids) : i # j => o[i] # o[j]}

Pos(order, id) == CHOOSE i \in 1..Len(order) : order[i] = id

\* ORDER BY created_at DESC: rows of one created_at come in the order the
\* storage picked for this statement.
RECURSIVE OrderByCreatedAtDesc(_, _)
OrderByCreatedAtDesc(rows, order) ==
    IF rows = {} THEN << >>
    ELSE LET first == CHOOSE r \in rows : \A o \in rows :
                          \/ o.createdAt < r.createdAt
                          \/ /\ o.createdAt = r.createdAt
                             /\ Pos(order, r.id) <= Pos(order, o.id)
         IN  << first >> \o OrderByCreatedAtDesc(rows \ {first}, order)

\* rows.Next() / append over the rows of the result
RECURSIVE ScanRows(_, _)
ScanRows(employees, rows) ==
    IF rows = << >> THEN employees
    ELSE ScanRows(Append1(employees, Head(rows)), Tail(rows))

Min(a, b) == IF a <= b THEN a ELSE b

\* LIMIT limit OFFSET offset over the ordered rows; offset is a Go int.
LimitOffset(rows, limit, offset) ==
    IF ~IsSmall(offset) \/ Small(offset) >= Len(rows) THEN << >>
    ELSE SubSeq(rows, Small(offset) + 1, Min(Small(offset) + limit, Len(rows)))

ErrQueryEmployees == "failed to query employees"

\* Mutant: the conditions are joined by OR.
FindAll_AnyFilter(tbl, limit, offset, filters, order) ==
    IF limit < 0 \/ IsNegative(offset)
    THEN [employees |-> NilSlice, err |-> ErrQueryEmployees]
    ELSE LET conds == {<< filters.department, "department" >>,
                       << filters.status, "status" >>,
                       << filters.position, "position" >>}
             on == {c \in conds : c[1].ok /\ c[1].v # ""}
             matching == {r \in tbl :
                            on # {} => \E c \in on : r[c[2]] = c[1].v}
         IN  [employees |-> ScanRows(NilSlice,
                              LimitOffset(OrderByCreatedAtDesc(matching, order),
                                          limit, offset)),
              err |-> ErrNone]

\* employeeRepository.FindAll: the slice returned and the error.  The
\* storage rejects a negative LIMIT or OFFSET.
FindAll(tbl, limit, offset, filters, order) ==
    IF limit < 0 \/ IsNegative(offset)
    THEN [employees |-> NilSlice, err |-> ErrQueryEmployees]
    ELSE LET matching == {r \in tbl : Where(r, filters)}
         IN  [employees |-> ScanRows(NilSlice,
                              LimitOffset(OrderByCreatedAtDesc(matching, order),
                                          limit, offset)),
              err |-> ErrNone]

\* employeeRepository.Count: its own copy of the conditions of FindAll.
CountWhere(r, filters) ==
    /\ (filters.department.ok /\ filters.department.v # "") =>
          r.department = filters.department.v
    /\ (filters.status.ok /\ filters.status.v # "") =>
          r.status = filters.status.v
    /\ (filters.position.ok /\ filters.position.v # "") =>
          r.position = filters.position.v

\* Mutant: an empty filter value is a condition like any other.
Count_EmptyIsValue(tbl, filters) ==
    [count |-> Cardinality({r \in tbl :
                  /\ filters.department.ok => r.department = filters.department.v
                  /\ filters.status.ok => r.status = filters.status.v
                  /\ filters.position.ok => r.position = filters.position.v}),
     err |-> ErrNone]

\* employeeRepository.Count
Count(tbl, filters) ==
    [count |-> Cardinality({r \in tbl : CountWhere(r, filters)}), err |-> ErrNone]

\* employeeRepository.Update: the error for a 23505 on the given constraint.
UpdateError(constraintName) ==
    CASE constraintName = EmailKey -> ErrEmailAlreadyExists
      [] constraintName = EmployeeNumberKey -> ErrEmployeeNumberAlreadyExists
      [] OTHER -> "failed to update employee"

\* Mutant: uniqueness is looked up before the row is.
Update_ConflictFirst(tbl, visible, e, now, fired) ==
    LET viol == UniqueViolations(tbl, e) \cup fired
    IN  IF viol # {}
        THEN {[tbl |-> tbl, err |-> UpdateError(c)] : c \in viol}
        ELSE IF e.id \notin (Ids(visible) \cap Ids(tbl))
        THEN {[tbl |-> tbl, err |-> ErrEmployeeNotFound]}
        ELSE {[tbl |-> (tbl \ {RowOf(tbl, e.id)})
                        \cup {UpdatedRow(RowOf(tbl, e.id), e, now)},
               err |-> ErrNone]}

\* Mutant: on a unique violation the columns without a constraint are
\* written all the same.
Update_PartialOnConflict(tbl, visible, e, now, fired) ==
    IF e.id \notin (Ids(visible) \cap Ids(tbl))
    THEN {[tbl |-> tbl, err |-> ErrEmployeeNotFound]}
    ELSE LET old  == RowOf(tbl, e.id)
             new  == UpdatedRow(old, e, now)
             part == [old EXCEPT !.firstName = e.firstName,
                                 !.lastName = e.lastName]
             viol == UniqueViolations(tbl, new) \cup fired
         IN  IF viol = {}
             THEN {[tbl |-> (tbl \ {old}) \cup {new}, err |-> ErrNone]}
             ELSE {[tbl |-> (tbl \ {old}) \cup {part}, err |-> UpdateError(c)] :
                     c \in viol}

\* employeeRepository.Update, its UPDATE statement: the outcomes.  The
\* statement writes the row of e.id if its snapshot holds that row and the
\* row is still stored; RowsAffected() == 0 is not found.  fired as in Create.
Update(tbl, visible, e, now, fired) ==
    IF e.id \notin (Ids(visible) \cap Ids(tbl))
    THEN {[tbl |-> tbl, err |-> ErrEmployeeNotFound]}
    ELSE LET old  == RowOf(tbl, e.id)
             new  == UpdatedRow(old, e, now)
             viol == UniqueViolations(tbl, new) \cup fired
         IN  IF viol = {}
             THEN {[tbl |-> (tbl \ {old}) \cup {new}, err |-> ErrNone]}
             ELSE {[tbl |-> tbl, err |-> UpdateError(c)] : c \in viol}

\* employeeRepository.Update, its SELECT updated_at: e with the timestamp
\* read back, or the error when the row is gone.
UpdateReselect(tbl, e) ==
    IF e.id \in Ids(tbl)
    THEN [e |-> [e EXCEPT !.updatedAt = RowOf(tbl, e.id).updatedAt], err |-> ErrNone]
    ELSE [e |-> e, err |-> ErrUpdatedTimestamp]

\* Mutant: the row is marked as deleted and kept.
Delete_Soft(tbl, id, refs) ==
    IF id \in Ids(tbl) /\ id \in refs
    THEN [tbl |-> tbl, err |-> ErrReferenced]
    ELSE IF id \in Ids(tbl)
    THEN [tbl |-> (tbl \ {RowOf(tbl, id)})
                    \cup {[RowOf(tbl, id) EXCEPT !.status = "DELETED"]},
          err |-> ErrNone]
    ELSE [tbl |-> tbl, err |-> ErrEmployeeNotFound]

\* Mutant: the DELETE takes every row up to the identifier.
Delete_UpTo(tbl, id, refs) ==
    IF id \in Ids(tbl) /\ id \in refs
    THEN [tbl |-> tbl, err |-> ErrReferenced]
    ELSE IF id \in Ids(tbl)
    THEN [tbl |-> {r \in tbl : r.id > id}, err |-> ErrNone]
    ELSE [tbl |-> tbl, err |-> ErrEmployeeNotFound]

\* employeeRepository.Delete: the table after DELETE ... WHERE id = $1 and
\* the error returned; RowsAffected() == 0 is not found, and a row that rows
\* of other tables (refs) refer to is a foreign-key violation (23503).
Delete(tbl, id, refs) ==
    IF id \in Ids(tbl) /\ id \in refs
    THEN [tbl |-> tbl, err |-> ErrReferenced]
    ELSE IF id \in Ids(tbl)
    THEN [tbl |-> tbl \ {RowOf(tbl, id)}, err |-> ErrNone]
    ELSE [tbl |-> tbl, err |-> ErrEmployeeNotFound]

\* ------------------------------------------------------------ handlers
\* What each handler's switch on the service error writes.
CreateErrorResponse(err) ==
    CASE err = ErrEmailAlreadyExists -> Conflict("Email already exist")
      [] err = ErrEmployeeNumberAlreadyExists -> Conflict("Employee number already exists")
      [] OTHER -> InternalServerError("Failed to create employee")

GetErrorResponse(err) ==
    CASE err = ErrEmployeeNotFound -> NotFound("Employee not found")
      [] OTHER -> InternalServerError("Failed to retrieve employee")

UpdateErrorResponse(err) ==
    CASE err = ErrEmployeeNotFound -> NotFound("Employee not found")
      [] err = ErrEmailAlreadyExists -> Conflict("Email already exists")
      [] err = ErrEmployeeNumberAlreadyExists -> Conflict("Employee number already exists")
      [] OTHER -> InternalServerError("Failed to update employee")

DeleteErrorResponse(err) ==
    CASE err = ErrEmployeeNotFound -> NotFound("Employee not found")
      [] OTHER -> InternalServerError("Failed to delete employee")

\* POST /employees, up to the INSERT being sent.
CreateEmployee_Call(w, bodies, hist) ==
    /\ pc[w] = "idle"
    /\ UNCHANGED << list, referenced, otherKeys, validated >>
    /\ UNCHANGED << table, seq, issued, modified >>
    /\ \/ \* ShouldBindJSON fails
          /\ Reply(w, BadRequest("Invalid JSON format"))
          /\ Serve(w, hist, "POST", Empty, ZeroEmployee)
          /\ UNCHANGED clock
       \/ \E body \in bodies :
            LET validation == ValidateEmployee(body.email, body.employeeNumber,
                                               body.firstName, body.lastName)
            IN  /\ Serve(w, hist, "POST", Empty, body)
                /\ IF ~validation.IsValid
                   THEN /\ Reply(w, ValidationError(StatusBadRequest,
                                       "Validation failed", validation.Errors))
                        /\ UNCHANGED clock
                   ELSE /\ seq + Cardinality({v \in Workers : pc[v] = "insert"})
                              < MaxId
                        /\ Send(w, "insert", ServiceCreate(body, clock))

\* Mutant: uniqueness is checked on the rows read when the request came in,
\* and the row is inserted afterwards.
CreateEmployee_Insert_CheckThenAct(w) ==
    /\ pc[w] = "insert"
    /\ UNCHANGED << list, referenced, otherKeys, validated >>
    /\ UNCHANGED << clock, modified, served >>
    /\ \E fired \in SUBSET otherKeys :
       \E out \in Create(snap[w], seq, req[w], txTime[w], fired) :
        /\ seq' = out.seq
        /\ IF out.err # ErrNone
           THEN /\ Reply(w, CreateErrorResponse(out.err))
                /\ UNCHANGED << table, issued >>
           ELSE /\ Reply(w, JSON(StatusCreated, out.e))
                /\ table' = table \cup {out.e}
                /\ issued' = issued \cup {out.e.id}

\* POST /employees, from the INSERT's execution to the response.
CreateEmployee_Insert(w) ==
    /\ pc[w] = "insert"
    /\ UNCHANGED << list, referenced, otherKeys, validated >>
    /\ UNCHANGED << clock, modified, served >>
    /\ \E fired \in SUBSET otherKeys :
       \E out \in Create(table, seq, req[w], txTime[w], fired) :
        /\ table' = out.tbl
        /\ seq' = out.seq
        /\ IF out.err # ErrNone
           THEN /\ Reply(w, CreateErrorResponse(out.err))
                /\ UNCHANGED issued
           ELSE /\ Reply(w, JSON(StatusCreated, out.e))
                /\ issued' = issued \cup {out.e.id}

\* GET /employees/:id
GetEmployeeByID(w, idParams, hist) ==
    /\ pc[w] = "idle"
    /\ UNCHANGED << list, referenced, otherKeys, validated >>
    /\ UNCHANGED << table, seq, clock, issued, modified >>
    /\ \E idParam \in idParams :
        LET v == ValidateID(idParam)
            found == FindByID(table, Small(v.id))
        IN  /\ Serve(w, hist, "GET", idParam, ZeroEmployee)
            /\ IF v.errs # << >>
               THEN Reply(w, ValidationError(StatusBadRequest, "Invalid ID", v.errs))
               ELSE IF found.err # ErrNone
               THEN Reply(w, GetErrorResponse(found.err))
               ELSE Reply(w, JSON(StatusOK, found.emp))

\* PUT /employees/:id, up to the UPDATE being sent.
UpdateEmployee_Call(w, idParams, bodies, hist) ==
    /\ pc[w] = "idle"
    /\ UNCHANGED << list, referenced, otherKeys, validated >>
    /\ UNCHANGED << table, seq, issued, modified >>
    /\ \E idParam \in idParams :
        LET v == ValidateID(idParam)
        IN  IF v.errs # << >>
            THEN /\ Reply(w, ValidationError(StatusBadRequest, "Invalid ID", v.errs))
                 /\ Serve(w, hist, "PUT", idParam, ZeroEmployee)
                 /\ UNCHANGED clock
            ELSE \/ \* ShouldBindJSON fails
                    /\ Reply(w, BadRequest("Invalid JSON format"))
                    /\ Serve(w, hist, "PUT", idParam, ZeroEmployee)
                    /\ UNCHANGED clock
                 \/ \E body \in bodies :
                      LET e == [body EXCEPT !.id = Small(v.id)]
                          validation ==
                              ValidateEmployee(e.email, e.employeeNumber,
                                               e.firstName, e.lastName)
                      IN  /\ Serve(w, hist, "PUT", idParam, body)
                          /\ IF ~validation.IsValid
                             THEN /\ Reply(w, ValidationError(StatusBadRequest,
                                              "Validation failed", validation.Errors))
                                  /\ UNCHANGED clock
                             ELSE Send(w, "update", e)

\* PUT /employees/:id, the UPDATE's execution.
UpdateEmployee_Exec(w) ==
    /\ pc[w] = "update"
    /\ UNCHANGED << list, referenced, otherKeys, validated >>
    /\ UNCHANGED << seq, clock, issued, served >>
    /\ \E fired \in SUBSET otherKeys :
       \E out \in Update(table, snap[w], req[w], txTime[w], fired) :
        /\ table' = out.tbl
        /\ IF out.err # ErrNone
           THEN /\ Reply(w, UpdateErrorResponse(out.err))
                /\ UNCHANGED modified
           ELSE /\ modified' = modified \cup {req[w].id}
                /\ pc' = [pc EXCEPT ![w] = "reselect"]
                /\ UNCHANGED << req, txTime, snap, resp, written >>

\* PUT /employees/:id, from SELECT updated_at to the response.
UpdateEmployee_Reselect(w) ==
    /\ pc[w] = "reselect"
    /\ UNCHANGED << list, referenced, otherKeys, validated >>
    /\ UNCHANGED << table, seq, clock, issued, modified, served >>
    /\ LET out == UpdateReselect(table, req[w])
       IN  IF out.err # ErrNone
           THEN Reply(w, UpdateErrorResponse(out.err))
           ELSE Reply(w, JSON(StatusOK, out.e))

\* DELETE /employees/:id
DeleteEmployee(w, idParams, hist) ==
    /\ pc[w] = "idle"
    /\ UNCHANGED << list, referenced, otherKeys, validated >>
    /\ UNCHANGED << seq, clock, issued >>
    /\ \E idParam \in idParams :
        LET v == ValidateID(idParam)
            out == Delete(table, Small(v.id), referenced)
        IN  /\ Serve(w, hist, "DELETE", idParam, ZeroEmployee)
            /\ IF v.errs # << >>
               THEN /\ Reply(w, ValidationError(StatusBadRequest, "Invalid ID", v.errs))
                    /\ UNCHANGED << table, modified >>
               ELSE /\ table' = out.tbl
                    /\ IF out.err # ErrNone
                       THEN /\ Reply(w, DeleteErrorResponse(out.err))
                            /\ UNCHANGED modified
                       ELSE /\ Reply(w, Status(StatusNoContent))
                            /\ modified' = modified \cup {Small(v.id)}

\* GetAllEmployees: c.ShouldBindQuery with the binding tags of
\* api.PaginationQuery (omitempty, min=1 / max=100 / oneof=...).
ShouldBindQuery(q) ==
    /\ q.parses
    /\ ~IsNegative(q.page)
    /\ ~IsNegative(q.pageSize) /\ ~GreaterThan(q.pageSize, 100)
    /\ q.status \in {""} \cup EmployeeStatus

\* GetAllEmployees: "set defaults for pagination"
QueryPage(page) == IF LessThan(page, 1) THEN FromInt(1) ELSE page

QueryPageSize(pageSize) ==
    IF LessThan(pageSize, 1) THEN FromInt(10)
    ELSE IF GreaterThan(pageSize, 100) THEN FromInt(100)
    ELSE pageSize

\* GetAllEmployees: "build filters map"
QueryFilter(v) == IF v # "" THEN Filter(TRUE, v) ELSE Absent
QueryFilters(q) ==
    Filters(QueryFilter(q.department), QueryFilter(q.status),
            QueryFilter(q.position))

\* Mutant: integer division without rounding up.
TotalPages_Floor(total, pageSize) == total \div pageSize

\* GetAllEmployees: totalPages
TotalPages(total, pageSize) == (total + pageSize - 1) \div pageSize

\* What GetAllEmployees leaves written once a call is at c: its response,
\* if it has written one.
ListWritten(w, c) ==
    IF c.response = NoListResponse
    THEN written' = [written EXCEPT ![w] = << >>]
    ELSE Written(w, << c.response >>)

\* EmployeeService.FindAll called by via, up to the return of repo.FindAll.
ServiceFindAll_Begin(w, via, query, page, pageSize, filters) ==
    \E order \in Orders(Ids(table)) :
    LET p     == ServicePage(page)
        ps    == ServicePageSize(pageSize)
        off   == ServiceOffset(p, ps)
        found == FindAll(table, Small(ps), off, filters, order)
    IN  /\ pc[w] = "idle"
        /\ UNCHANGED << table, seq, clock, req, txTime, snap, resp, issued,
                        modified, served, referenced, otherKeys, validated >>
        /\ IF found.err # ErrNone
           THEN /\ list' = [list EXCEPT ![w] =
                    Call(via, query, page, pageSize, filters, Small(ps), off,
                         NilSlice, 0, found.err,
                         IF via = "handler"
                         THEN ListResponse(StatusInternalServerError,
                                  "internal server error", NilSlice, NoPagination)
                         ELSE NoListResponse)]
                /\ UNCHANGED pc
           ELSE /\ list' = [list EXCEPT ![w] =
                    Call(via, query, page, pageSize, filters, Small(ps), off,
                         found.employees, 0, ErrNone, NoListResponse)]
                /\ pc' = [pc EXCEPT ![w] = "count"]
        /\ ListWritten(w, list'[w])

\* GET /employees, up to the return of repo.FindAll.
GetAllEmployees_Call(w, queries) ==
    \E q \in queries :
        IF ~ShouldBindQuery(q)
        THEN /\ pc[w] = "idle"
             /\ UNCHANGED << table, seq, clock, pc, req, txTime, snap, resp,
                             issued, modified, served, referenced, otherKeys, validated >>
             /\ list' = [list EXCEPT ![w] =
                    [NoCall EXCEPT !.via = "handler", !.query = q,
                        !.response = ListResponse(StatusBadRequest,
                            "invalid query parameters", NilSlice, NoPagination)]]
             /\ ListWritten(w, list'[w])
        ELSE ServiceFindAll_Begin(w, "handler", q, QueryPage(q.page),
                                  QueryPageSize(q.pageSize), QueryFilters(q))

\* EmployeeService.FindAll called with arguments of the caller's choice, up
\* to the return of repo.FindAll.
ServiceFindAll_Call(w, calls) ==
    \E c \in calls :
        ServiceFindAll_Begin(w, "service", NoQuery, c[1], c[2], c[3])

\* EmployeeService.FindAll from repo.Count on, and the response of
\* GetAllEmployees when the handler called.
ServiceFindAll_Count(w) ==
    /\ pc[w] = "count"
    /\ UNCHANGED << table, seq, clock, req, txTime, snap, resp, issued,
                    modified, served, referenced, otherKeys, validated >>
    /\ pc' = [pc EXCEPT ![w] = "idle"]
    /\ LET c      == list[w]
           total  == Count(table, c.filters).count
           page   == QueryPage(c.query.page)
           size   == Small(QueryPageSize(c.query.pageSize))
       IN  list' = [list EXCEPT ![w] =
              [c EXCEPT !.total = total,
                  !.response =
                      IF c.via = "handler"
                      THEN ListResponse(StatusOK, "", c.employees,
                               PaginationMeta(page, size,
                                   TotalPages(total, size), total))
                      ELSE NoListResponse]]
    /\ ListWritten(w, list'[w])

\* ------------------------------------------------- the validators alone
\* ValidateEmployee called with arguments of the caller's choice.
ValidateEmployee_Apply(inputs) ==
    /\ \E a \in inputs :
          validated' = [fn |-> "ValidateEmployee", args |-> a,
                        result |-> ValidateEmployee(a[1], a[2], a[3], a[4])]
    /\ UNCHANGED << table, seq, clock, pc, req, txTime, snap, resp, issued,
                    modified, served, list, referenced, otherKeys, written >>

\* ValidateID called with a string of the caller's choice.
ValidateID_Apply(idStrs) ==
    /\ \E idStr \in idStrs :
          validated' = [fn |-> "ValidateID", args |-> idStr,
                        result |-> ValidateID(idStr)]
    /\ UNCHANGED << table, seq, clock, pc, req, txTime, snap, resp, issued,
                    modified, served, list, referenced, otherKeys, written >>

\* Arguments of ValidateEmployee: each of email, employeeNumber, firstName
\* and lastName empty, blank, malformed and well formed, in every
\* combination.
EmailInputs ==
    {Empty, EmailA, << " " >>, << "a", "@", "x" >>,
     << "a", ".", "@", "x", ".", "i", "o" >>}
NumberInputs == {"", " ", "E1"}
NameInputs == {Empty, << " " >>, << " ", "\t" >>, NameA, << " ", "a" >>}
EmployeeInputs == EmailInputs \X NumberInputs \X NameInputs \X NameInputs

\* Arguments of ValidateID: not integers, integers of either sign and of
\* none, and the integers on both sides of each end of int64.
IdStrings ==
    {Empty,
     << "a", "b", "c" >>,
     << "-", "5" >>,
     << "4", "2" >>,
     << "0" >>,
     << "-", "0" >>,
     << "+", "7" >>,
     << "0", "0", "7" >>,
     << "1", "_", "0" >>,
     << " ", "1" >>,
     << "1", ".", "5" >>,
     << "+" >>,
     << "-" >>,
     << "-", "-", "1" >>,
     << "2", "1", "4", "7", "4", "8", "3", "6", "4", "8" >>,
     << "4", "2", "9", "4", "9", "6", "7", "2", "9", "6" >>,
     << "9", "2", "2", "3", "3", "7", "2", "0", "3", "6", "8", "5", "4", "7", "7", "5", "8", "0", "7" >>,
     << "9", "2", "2", "3", "3", "7", "2", "0", "3", "6", "8", "5", "4", "7", "7", "5", "8", "0", "8" >>,
     << "-", "9", "2", "2", "3", "3", "7", "2", "0", "3", "6", "8", "5", "4", "7", "7", "5", "8", "0", "8" >>,
     << "-", "9", "2", "2", "3", "3", "7", "2", "0", "3", "6", "8", "5", "4", "7", "7", "5", "8", "0", "9" >>,
     << "1", "8", "4", "4", "6", "7", "4", "4", "0", "7", "3", "7", "0", "9", "5", "5", "1", "6", "1", "5" >>,
     << "1", "8", "4", "4", "6", "7", "4", "4", "0", "7", "3", "7", "0", "9", "5", "5", "1", "6", "1", "6" >>,
     << "9", "9", "9", "9", "9", "9", "9", "9", "9", "9", "9", "9", "9", "9", "9", "9", "9", "9", "9", "9" >>,
     << "0", "0", "0", "0", "0", "0", "0", "0", "0", "0", "0", "0", "0", "0", "0", "0", "0", "0", "0", "0", "0", "1" >>}

NextValidate ==
    \/ ValidateEmployee_Apply(EmployeeInputs)
    \/ ValidateID_Apply(IdStrings)

SpecValidate == Init /\ [][NextValidate]_vars

\* One request of worker w, its inputs drawn from the given sets.
Request(w, idParams, bodies, hist) ==
    \/ CreateEmployee_Call(w, bodies, hist)
    \/ CreateEmployee_Insert(w)
    \/ GetEmployeeByID(w, idParams, hist)
    \/ UpdateEmployee_Call(w, idParams, bodies, hist)
    \/ UpdateEmployee_Exec(w)
    \/ UpdateEmployee_Reselect(w)
    \/ DeleteEmployee(w, idParams, hist)

\* Requests one after the other, with every input.
Next == Request(1, IdInputs, Bodies, TRUE)

Spec == Init /\ [][Next]_vars

\* Requests of all workers interleaved at their storage statements, with the
\* inputs that pass validation (validation reads no shared state).
ValidIdInputs == {i \in IdInputs : ValidateID(i).errs = << >>}
ValidBodies ==
    {b \in Bodies :
        ValidateEmployee(b.email, b.employeeNumber, b.firstName, b.lastName).IsValid}

NextConc == \E w \in Workers : Request(w, ValidIdInputs, ValidBodies, FALSE)

SpecConc == Init /\ [][NextConc]_vars

\* ------------------------------------------------------------- listing
\* Pages: one whose offset is a multiple of 2^64 at page size 100
\* (2^62 + 1), and the first one whose offset at page size 100 is beyond
\* the largest int.
PageWrapsToZero == << 1, 0, 0, 16384 >>
PageBeyondInt   == << 18352, 31457, 44564, 327 >>
MaxInt          == << Limb - 1, Limb - 1, Limb - 1, (Limb \div 2) - 1 >>

\* The query strings clients send to GET /employees; the last four do not
\* bind.
Queries ==
    {Query(TRUE, FromInt(0), FromInt(0), "", "", ""),
     Query(TRUE, FromInt(1), FromInt(1), "A", "", ""),
     Query(TRUE, FromInt(2), FromInt(1), "", "", ""),
     Query(TRUE, FromInt(3), FromInt(1), "", StatusActive, "dev"),
     Query(TRUE, FromInt(1), FromInt(100), "B", StatusRetired, "ops"),
     Query(TRUE, PageWrapsToZero, FromInt(100), "", "", ""),
     Query(TRUE, PageBeyondInt, FromInt(100), "", "", ""),
     Query(TRUE, FromInt(-1), FromInt(1), "", "", ""),
     Query(TRUE, FromInt(1), FromInt(101), "", "", ""),
     Query(TRUE, FromInt(1), FromInt(1), "", "FIRED", ""),
     Query(FALSE, FromInt(0), FromInt(0), "", "", "")}

\* The arguments (page, pageSize, filters) other callers give to
\* EmployeeService.FindAll.
ServiceCalls ==
    {<< FromInt(-1), FromInt(-1), Filters(Absent, Absent, Absent) >>,
     << FromInt(0), FromInt(0), Filters(Filter(TRUE, ""), Absent, Filter(TRUE, "")) >>,
     << FromInt(1), FromInt(1), Filters(Filter(TRUE, "A"), Filter(TRUE, ""), Absent) >>,
     << FromInt(2), FromInt(1), Filters(Absent, Filter(TRUE, StatusActive), Absent) >>,
     << FromInt(2), FromInt(101), Filters(Absent, Absent, Filter(TRUE, "ops")) >>,
     << FromInt(1), FromInt(500), Filters(Filter(TRUE, "A"), Filter(TRUE, StatusActive), Filter(TRUE, "dev")) >>,
     << FromInt(3), MaxInt, Filters(Absent, Absent, Absent) >>,
     << MaxInt, FromInt(100), Filters(Absent, Absent, Absent) >>,
     << PageWrapsToZero, FromInt(100), Filters(Absent, Absent, Absent) >>,
     << PageBeyondInt, FromInt(500), Filters(Absent, Absent, Absent) >>}

\* The bodies the writing worker sends while another worker lists.
ListBodies ==
    {b \in ValidBodies : b.status \in EmployeeStatus}

\* Worker 1 lists, through the handler or calling the service, while
\* worker 2 creates, updates and deletes.
NextList ==
    \/ GetAllEmployees_Call(1, Queries)
    \/ ServiceFindAll_Call(1, ServiceCalls)
    \/ ServiceFindAll_Count(1)
    \/ Request(2, ValidIdInputs, ListBodies, FALSE)

SpecList == Init /\ [][NextList]_vars

\* ------------------------------------------------------- storage faults
\* The table in a database where rows of another table refer to employee 1
\* and a unique constraint besides the two declared ones exists.
InitFault ==
    /\ table = {}
    /\ seq = 0
    /\ clock = 1
    /\ pc = [w \in Workers |-> "idle"]
    /\ req = [w \in Workers |-> ZeroEmployee]
    /\ txTime = [w \in Workers |-> ZeroTime]
    /\ snap = [w \in Workers |-> {}]
    /\ resp = [w \in Workers |-> NoResponse]
    /\ issued = {}
    /\ modified = {}
    /\ served = [w \in Workers |-> RequestOf("", Empty, ZeroEmployee)]
    /\ list = [w \in Workers |-> NoCall]
    /\ referenced = {1}
    /\ otherKeys = {PrimaryKey}
    /\ validated = NoValidation
    /\ written = [w \in Workers |-> << >>]

NextFault == Request(1, ValidIdInputs, ValidBodies, TRUE)

SpecFault == InitFault /\ [][NextFault]_vars

\* Listings page by page over a store nothing writes to.  The store holds
\* two employees, created by INSERTs whose transactions started at two
\* instants or, in flight together, at one and the same instant of the clock
\* (CURRENT_TIMESTAMP is the start of the transaction).
StoredAt(b, s, now) == InsertedRow(ServiceCreate(b, now), s, now)

PageStores ==
    {{StoredAt(Body(NameA, NameB, EmailA, "E1", "dev", "A", "", ZeroTime), 0, t[1]),
      StoredAt(Body(NameB, NameA, EmailB, "E2", "ops", "A", "", ZeroTime), 1, t[2])} :
        t \in {<< 1, 1 >>, << 1, 2 >>}}

InitPages ==
    /\ table \in PageStores
    /\ seq = 2
    /\ clock = 2
    /\ pc = [w \in Workers |-> "idle"]
    /\ req = [w \in Workers |-> ZeroEmployee]
    /\ txTime = [w \in Workers |-> ZeroTime]
    /\ snap = [w \in Workers |-> {}]
    /\ resp = [w \in Workers |-> NoResponse]
    /\ issued = {1, 2}
    /\ modified = {}
    /\ served = [w \in Workers |-> RequestOf("", Empty, ZeroEmployee)]
    /\ list = [w \in Workers |-> NoCall]
    /\ referenced = {}
    /\ otherKeys = {}
    /\ validated = NoValidation
    /\ written = [w \in Workers |-> << >>]

\* Pages 1 to 3 in sizes 1 and 2, unfiltered and filtered.
PageCalls ==
    {<< FromInt(page), FromInt(size), f >> :
        page \in 1..3, size \in 1..2,
        f \in {Filters(Absent, Absent, Absent),
               Filters(Filter(TRUE, "A"), Absent, Absent),
               Filters(Absent, Absent, Filter(TRUE, "dev"))}}

NextPages ==
    \E w \in Workers :
        \/ ServiceFindAll_Call(w, PageCalls)
        \/ ServiceFindAll_Count(w)

SpecPages == InitPages /\ [][NextPages]_vars

TypeOK ==
    /\ \A r \in table : r.id \in 1..MaxId
    /\ seq \in 0..MaxId
    /\ clock \in 1..MaxClock
    /\ pc \in [Workers -> {"idle", "insert", "update", "reselect"}]

\* ============================================================ properties
\* The path segment that names identifier i.
IdParam(i) == << DigitOf(i) >>

\* The fields of a record that the client supplies on Create.
InputFields(e) ==
    << e.firstName, e.lastName, e.email, e.employeeNumber, e.position,
       e.department >>

\* Worker w's INSERT has just been answered.
InsertAnswered(w) == pc[w] = "insert" /\ pc'[w] = "idle"

\* C1: at every moment, no two distinct stored employees share an email
\* address and no two share an employee number.
C1_UniqueEmailAndNumber ==
    \A r1, r2 \in table :
        r1 # r2 => /\ r1.email # r2.email
                   /\ r1.employeeNumber # r2.employeeNumber

\* Two employees are stored and a request that would have duplicated one of
\* their unique fields has been answered with a conflict.
C1_Witness ==
    /\ Cardinality(table) = 2
    /\ \E w \in Workers : resp[w].code = StatusConflict

\* C2: when a Create is answered while a row that another request inserted
\* during its flight holds the same email or the same employee number, the
\* Create is answered with the conflict for that field (either one when both
\* clash) and stores nothing; so of the racing Creates at most one succeeds
\* and the stored data stay unique.
C2_ConcurrentCreates ==
    [][\A w \in Workers :
        InsertAnswered(w) =>
            LET rivals   == {r \in table : r.id \notin Ids(snap[w])}
                byEmail  == {r \in rivals : r.email = req[w].email}
                byNumber == {r \in rivals : r.employeeNumber = req[w].employeeNumber}
                sameEmail  == \E r \in table : r.email = req[w].email
                sameNumber == \E r \in table : r.employeeNumber = req[w].employeeNumber
            IN  /\ (byEmail # {} \/ byNumber # {}) =>
                      /\ table' = table
                      /\ resp'[w] \in {Conflict("Email already exist"),
                                       Conflict("Employee number already exists")}
                /\ (byEmail # {} /\ ~sameNumber) =>
                      resp'[w] = Conflict("Email already exist")
                /\ (byNumber # {} /\ ~sameEmail) =>
                      resp'[w] = Conflict("Employee number already exists")
                /\ \A r1, r2 \in table' :
                      r1 # r2 => /\ r1.email # r2.email
                                 /\ r1.employeeNumber # r2.employeeNumber
      ]_vars

\* Two Creates with the same email were the only statements sent; the one
\* sent second was stored, and the one sent first, executed after it, was
\* answered with the email conflict.
C2_Witness ==
    /\ seq = 2 /\ clock = 3 /\ Cardinality(table) = 1
    /\ \E w, v \in Workers :
        /\ w # v
        /\ resp[w].code = StatusCreated
        /\ resp[w].body \in table
        /\ resp[w].body.createdAt = clock
        /\ resp[v] = Conflict("Email already exist")

\* C3: a successful Create answers with the six input fields as sent, status
\* ACTIVE and the stored identifier and timestamps; a FindByID of that
\* identifier, with no Update or Delete of it in between, answers with a
\* record whose six input fields, status, identifier, createdAt and
\* updatedAt equal those of the Create's answer.
C3_CreateThenFindByID ==
    [][\A w \in Workers :
        /\ (InsertAnswered(w) /\ resp'[w].code = StatusCreated) =>
              LET b == resp'[w].body
              IN  /\ InputFields(b) = InputFields(served[w].e)
                  /\ b.status = StatusActive
                  /\ b.id > 0 /\ b.id = seq'
                  /\ b.createdAt = txTime[w] /\ b.updatedAt = txTime[w]
                  /\ b \in table'
        /\ \A i \in 1..MaxId :
              ( /\ resp[w].code = StatusCreated
                /\ resp[w].hasBody
                /\ resp[w].body.id = i
                /\ i \notin modified
                /\ GetEmployeeByID(w, {IdParam(i)}, TRUE) ) =>
                  /\ resp'[w].code = StatusOK
                  /\ InputFields(resp'[w].body) = InputFields(resp[w].body)
                  /\ resp'[w].body.status = StatusActive
                  /\ resp'[w].body.id = i
                  /\ resp'[w].body.createdAt = resp[w].body.createdAt
                  /\ resp'[w].body.updatedAt = resp[w].body.updatedAt
      ]_vars

\* The employee that an earlier Create stored, never updated or deleted
\* since, has just been read back by its identifier.
C3_Witness ==
    /\ served[1].method = "GET"
    /\ resp[1].code = StatusOK
    /\ resp[1].body.id \in issued \ modified
    /\ resp[1].body.firstName # resp[1].body.lastName
    /\ resp[1].body.status = StatusActive

\* C4: a Create whose email is stored already and whose employee number is
\* not is answered with the email conflict, one whose employee number is
\* stored already and whose email is not with the employee-number conflict,
\* and neither stores anything.
C4_CreateConflicts ==
    [][\A w \in Workers :
        InsertAnswered(w) =>
            LET sameEmail  == \E r \in table : r.email = req[w].email
                sameNumber == \E r \in table : r.employeeNumber = req[w].employeeNumber
            IN  /\ (sameEmail /\ ~sameNumber) =>
                      /\ resp'[w] = Conflict("Email already exist")
                      /\ resp'[w].code = StatusConflict
                      /\ table' = table
                /\ (sameNumber /\ ~sameEmail) =>
                      /\ resp'[w] = Conflict("Employee number already exists")
                      /\ resp'[w].code = StatusConflict
                      /\ table' = table
                /\ (~sameEmail /\ ~sameNumber) => resp'[w].code = StatusCreated
      ]_vars

\* A Create with a stored email and a fresh employee number has been
\* answered with the email conflict.
C4_Witness ==
    /\ served[1].method = "POST"
    /\ resp[1] = Conflict("Email already exist")
    /\ \E r \in table : r.email = served[1].e.email
    /\ \A r \in table : r.employeeNumber # served[1].e.employeeNumber

\* C5: for an identifier with no stored employee, a FindByID is answered
\* not found; an Update is answered not found even when its email or
\* employee number is held by another employee; a Delete is answered not
\* found and removes nothing.
C5_NotFound ==
    [][\A w \in Workers :
        /\ \A i \in (1..(MaxId + 1)) \ Ids(table) :
              /\ GetEmployeeByID(w, {IdParam(i)}, TRUE) =>
                    /\ resp'[w] = NotFound("Employee not found")
                    /\ resp'[w].code = StatusNotFound
              /\ DeleteEmployee(w, {IdParam(i)}, TRUE) =>
                    /\ resp'[w] = NotFound("Employee not found")
                    /\ resp'[w].code = StatusNotFound
                    /\ table' = table
        /\ (pc[w] = "update" /\ pc'[w] # "update" /\ req[w].id \notin Ids(table)) =>
              /\ resp'[w] = NotFound("Employee not found")
              /\ pc'[w] = "idle"
              /\ table' = table
      ]_vars

\* An Update of an identifier that was deleted, carrying the email of a
\* stored employee, has been answered not found.
C5_Witness ==
    /\ served[1].method = "PUT"
    /\ resp[1] = NotFound("Employee not found")
    /\ Small(ValidateID(served[1].path).id) \in issued \ Ids(table)
    /\ \E r \in table : /\ r.email = served[1].e.email
                        /\ r.employeeNumber = served[1].e.employeeNumber

\* C6: a Delete of a stored employee answers 204 and removes that row and
\* nothing else, so that a FindByID of the identifier right after it is
\* answered not found; a second Delete of the identifier right after it is
\* answered not found and changes nothing.
C6_HardDelete ==
    [][\A w \in Workers : \A i \in 1..MaxId :
        /\ (i \in Ids(table) /\ DeleteEmployee(w, {IdParam(i)}, TRUE)) =>
              /\ resp'[w] = Status(StatusNoContent)
              /\ table' = table \ {RowOf(table, i)}
              /\ i \notin Ids(table')
              /\ FindByID(table', i).err = ErrEmployeeNotFound
        /\ ( /\ served[w].method = "DELETE"
             /\ served[w].path = IdParam(i)
             /\ resp[w] = Status(StatusNoContent) ) =>
              /\ GetEmployeeByID(w, {IdParam(i)}, TRUE) =>
                    resp'[w] = NotFound("Employee not found")
              /\ DeleteEmployee(w, {IdParam(i)}, TRUE) =>
                    /\ resp'[w] = NotFound("Employee not found")
                    /\ table' = table
      ]_vars

\* A Delete of an identifier that was issued and deleted before has been
\* answered not found while another employee is still stored.
C6_Witness ==
    /\ served[1].method = "DELETE"
    /\ resp[1] = NotFound("Employee not found")
    /\ Small(ValidateID(served[1].path).id) \in (issued \cap modified) \ Ids(table)
    /\ table # {}

\* C7: the status of every stored employee is one of ACTIVE, ON_VACATION
\* and RETIRED.
C7_StatusEnumerated == \A r \in table : r.status \in EmployeeStatus

\* C8 as stated: no step changes the createdAt of a stored employee, and
\* every step that rewrites a stored employee leaves it with an updatedAt
\* strictly later than the one it had.
C8_UpdatedAtStrictlyIncreases ==
    [][\A r \in table : \A r2 \in table' :
        r2.id = r.id =>
            /\ r2.createdAt = r.createdAt
            /\ (r2 # r => r2.updatedAt > r.updatedAt)
      ]_vars

\* C8: no step changes the createdAt of a stored employee; a successful
\* Update sets updatedAt to the start time of its statement, and that is
\* strictly later than the previous updatedAt whenever no other request
\* rewrote the row between the statement's start and its execution.
C8_UpdatedAtIsStatementStart ==
    [][/\ \A r \in table : \A r2 \in table' :
            r2.id = r.id => r2.createdAt = r.createdAt
       /\ \A w \in Workers :
            (pc[w] = "update" /\ pc'[w] = "reselect") =>
                LET old == RowOf(table, req[w].id)
                    new == RowOf(table', req[w].id)
                IN  /\ new.updatedAt = txTime[w]
                    /\ old \in snap[w] => new.updatedAt > old.updatedAt
      ]_vars

\* Two Updates of one employee overlapped: the one whose statement started
\* later has been applied, and the other, still in flight, saw the row as it
\* was before.
C8_Witness ==
    \E w \in Workers :
        /\ pc[w] = "update"
        /\ req[w].id \in Ids(table)
        /\ RowOf(table, req[w].id) \notin snap[w]
        /\ RowOf(table, req[w].id).updatedAt > txTime[w]

\* C9: every identifier that enters the table is a positive integer that no
\* employee created before it was given, and no step gives a stored employee
\* another identifier: an Update leaves the set of stored identifiers as it
\* was, and no step both removes and adds one.
C9_IdentifiersNeverReused ==
    [][/\ \A r2 \in table' :
            r2.id \notin Ids(table) =>
                /\ r2.id > 0
                /\ r2.id \notin issued
                /\ \A i \in issued : r2.id > i
       /\ ~(Ids(table') \ Ids(table) # {} /\ Ids(table) \ Ids(table') # {})
       /\ \A w \in Workers :
            (pc[w] \in {"update", "reselect"} /\ pc'[w] # pc[w]) =>
                Ids(table') = Ids(table)
      ]_vars

\* An employee is stored under an identifier given after the deletion of an
\* employee with a smaller one.
C9_Witness ==
    \E r \in table : \E i \in (issued \cap modified) \ Ids(table) :
        /\ i < r.id
        /\ r.id \notin modified
        /\ \E w \in Workers : resp[w].code = StatusCreated /\ resp[w].body = r

\* C10: the record handed to storage by Create has status ACTIVE and the
\* time of the call as hire date whatever the client sent, its other fields
\* being the client's; what is stored carries them; and a conflict from
\* storage is answered as that conflict, nothing being stored.
C10_CreateDefaults ==
    [][\A w \in Workers :
        /\ (pc[w] = "idle" /\ pc'[w] = "insert") =>
              /\ req'[w].status = StatusActive
              /\ req'[w].hireDate = clock
              /\ InputFields(req'[w]) = InputFields(served'[w].e)
        /\ (InsertAnswered(w) /\ table' # table) =>
              LET row == RowOf(table', seq')
              IN  /\ row.status = StatusActive
                  /\ row.hireDate = req[w].hireDate
                  /\ row.hireDate # served[w].e.hireDate
                  /\ resp'[w] = JSON(StatusCreated, row)
        /\ (InsertAnswered(w) /\ table' = table) =>
              /\ resp'[w].code = StatusConflict
              /\ resp'[w].message \in {"Email already exist",
                                       "Employee number already exists"}
      ]_vars

\* A Create sent with status RETIRED and a hire date of its own has been
\* stored as ACTIVE with another hire date.
C10_Witness ==
    /\ served[1].method = "POST"
    /\ served[1].e.status = StatusRetired
    /\ served[1].e.hireDate # ZeroTime
    /\ resp[1].code = StatusCreated
    /\ resp[1].body \in table
    /\ resp[1].body.status = StatusActive
    /\ resp[1].body.hireDate # served[1].e.hireDate

\* Worker w's call of EmployeeService.FindAll has just come back from
\* repo.FindAll, or ended there with its error.
FindAllReturned(w) ==
    /\ pc[w] = "idle"
    /\ list'[w] # list[w]
    /\ list'[w].limit > 0

\* C11: EmployeeService.FindAll passes to the repository the limit 10 for a
\* pageSize below 1, 100 for one above 100 and the pageSize itself
\* otherwise, and as offset the product of the limit and one less than the
\* page, a page below 1 counting as 1.
C11_FindAllNormalizes ==
    [][\A w \in Workers :
        FindAllReturned(w) =>
            LET c     == list'[w]
                page  == IF LessThan(c.page, 1) THEN FromInt(1) ELSE c.page
                exact == Product(Dec(page), c.limit)
            IN  /\ LessThan(c.pageSize, 1) => c.limit = 10
                /\ GreaterThan(c.pageSize, 100) => c.limit = 100
                /\ (~LessThan(c.pageSize, 1) /\ ~GreaterThan(c.pageSize, 100)) =>
                      FromInt(c.limit) = c.pageSize
                /\ exact = c.offset \o << 0 >>
                /\ ~IsNegative(c.offset)
      ]_vars

\* The rows of tbl that pass the filters: each filter that is present and
\* not empty must equal the row's field.
Matching(tbl, f) ==
    {r \in tbl :
        /\ (f.department.ok /\ f.department.v # "") => r.department = f.department.v
        /\ (f.status.ok /\ f.status.v # "") => r.status = f.status.v
        /\ (f.position.ok /\ f.position.v # "") => r.position = f.position.v}

\* The number of rows of rows created after r.
Rank(rows, r) == Cardinality({o \in rows : o.createdAt > r.createdAt})

\* C12: what repo.FindAll returns holds only rows that pass every filter
\* that is present and not empty, most recently created first, at most
\* limit of them, and they are the rows that offset .. offset + limit - 1
\* rows passing the filters were created after.
C12_FindAllFiltersOrdersWindows ==
    [][\A w \in Workers :
        (FindAllReturned(w) /\ list'[w].err = ErrNone) =>
            LET c     == list'[w]
                items == c.employees.items
                rows  == Matching(table, c.filters)
            IN  /\ \A k \in 1..Len(items) : items[k] \in rows
                /\ \A k \in 1..(Len(items) - 1) :
                      items[k].createdAt > items[k + 1].createdAt
                /\ Len(items) <= c.limit
                /\ \A r \in rows :
                      (\E k \in 1..Len(items) : items[k] = r) <=>
                          /\ IsSmall(c.offset)
                          /\ Small(c.offset) <= Rank(rows, r)
                          /\ Rank(rows, r) - Small(c.offset) < c.limit
      ]_vars

\* Of two stored employees, a listing filtered by department has returned
\* the one of that department, and another window the older one alone.
C12_Witness ==
    /\ Cardinality(table) = 2
    /\ list[1].err = ErrNone
    /\ list[1].limit > 0
    /\ list[1].filters.department.ok
    /\ list[1].filters.department.v # ""
    /\ Len(list[1].employees.items) = 1
    /\ list[1].employees.items[1] \in table
    /\ \E r \in table : r.department # list[1].filters.department.v

\* C13: in every listing response totalRecords is the number of stored rows
\* that pass the filters, totalPages the least number of pages of the
\* reported size that hold them (0 for none), and currentPage and pageSize
\* are the page and the limit the rows were fetched with.
C13_PaginationMeta ==
    [][\A w \in Workers :
        (pc[w] = "count" /\ pc'[w] = "idle" /\ list[w].via = "handler") =>
            LET c == list'[w]
                m == c.response.pagination
            IN  /\ c.response.code = StatusOK
                /\ m.totalRecords = Cardinality(Matching(table, c.filters))
                /\ m.totalPages * m.pageSize >= m.totalRecords
                /\ m.totalPages > 0 =>
                      (m.totalPages - 1) * m.pageSize < m.totalRecords
                /\ m.totalPages >= 0
                /\ m.pageSize = c.limit
                /\ m.currentPage =
                      IF LessThan(c.query.page, 1) THEN FromInt(1) ELSE c.query.page
                /\ c.page = m.currentPage
      ]_vars

\* A listing of two stored employees with page size 1 reports two pages,
\* and one with the default page size reports one page.
C13_Witness ==
    /\ list[1].response.code = StatusOK
    /\ list[1].response.pagination.totalRecords = 2
    /\ list[1].response.pagination.pageSize = 1
    /\ list[1].response.pagination.totalPages = 2
    /\ Len(list[1].response.data.items) = 1

\* C14: a listing that ends without error carries a slice that is not nil,
\* also when no row is in its window.
C14_NeverNil ==
    \A w \in Workers :
        /\ (list[w].limit > 0 /\ list[w].err = ErrNone) =>
              ~list[w].employees.isNil
        /\ list[w].response.code = StatusOK => ~list[w].response.data.isNil

\* Worker w's UPDATE has just been applied.
UpdateApplied(w) == pc[w] = "update" /\ pc'[w] = "reselect"

\* C15: a successful Update leaves in the stored row the request's first
\* name, last name, email, employee number, position, department, status
\* and hire date.
C15_UpdateReplacesAllFields ==
    [][\A w \in Workers :
        UpdateApplied(w) =>
            LET row == RowOf(table', req[w].id)
            IN  /\ InputFields(row) = InputFields(req[w])
                /\ row.status = req[w].status
                /\ row.hireDate = req[w].hireDate
      ]_vars

\* C16: the record a successful Update answers with is what a FindByID of
\* the identifier right after it answers with.
C16_UpdateResponseIsStoredRecord ==
    [][\A w \in Workers : \A i \in 1..MaxId :
        ( /\ served[w].method = "PUT"
          /\ served[w].path = IdParam(i)
          /\ resp[w].code = StatusOK
          /\ GetEmployeeByID(w, {IdParam(i)}, TRUE) ) =>
            resp'[w] = JSON(StatusOK, resp[w].body)
      ]_vars

\* C17: a Delete of a stored employee that rows of other tables refer to
\* leaves the employee stored and is answered neither as not found nor as
\* the failure every unexpected storage error is answered with.
C17_ReferencedCannotDelete ==
    [][\A w \in Workers : \A i \in referenced \cap Ids(table) :
        DeleteEmployee(w, {IdParam(i)}, TRUE) =>
            /\ table' = table
            /\ resp'[w].code # StatusNoContent
            /\ resp'[w] # NotFound("Employee not found")
            /\ resp'[w] # InternalServerError("Failed to delete employee")
      ]_vars

\* C18: a Create or an Update that storage turns down for a uniqueness
\* violation, whatever the constraint, is answered with a conflict.
C18_UniqueViolationIsConflict ==
    [][\A w \in Workers :
        /\ (InsertAnswered(w) /\ resp'[w].code # StatusCreated) =>
              resp'[w].code = StatusConflict
        /\ (pc[w] = "update" /\ pc'[w] = "idle" /\ req[w].id \in Ids(table)) =>
              resp'[w].code = StatusConflict
      ]_vars

\* C19: an Update is one exchange with storage: once its UPDATE is applied
\* it answers 200 with the updatedAt that this UPDATE wrote.
C19_SingleRoundTrip ==
    [][\A w \in Workers :
        (pc[w] = "reselect" /\ pc'[w] = "idle") =>
            /\ resp'[w].code = StatusOK
            /\ resp'[w].body.updatedAt = txTime[w]
      ]_vars

\* The fields of a body that fail validation, in the order of the checks.
FailingFields(b) ==
    (IF b.email = Empty \/ ~IsValidEmail(b.email) THEN << "email" >> ELSE << >>)
    \o (IF b.employeeNumber = "" THEN << "employeeNumber" >> ELSE << >>)
    \o (IF TrimSpaceIsEmpty(b.firstName) THEN << "firstName" >> ELSE << >>)
    \o (IF TrimSpaceIsEmpty(b.lastName) THEN << "lastName" >> ELSE << >>)

\* The response is a 400 with one error for each of the given fields.
InvalidInput(r, fields) ==
    /\ r.code = StatusBadRequest
    /\ ~r.hasBody
    /\ Len(r.errors) = Len(fields)
    /\ \A k \in 1..Len(fields) : r.errors[k].field = fields[k]

\* Nothing was handed to the service or the repository.
NothingPersisted(w) ==
    /\ pc'[w] = "idle"
    /\ req'[w] = ZeroEmployee
    /\ table' = table /\ seq' = seq /\ clock' = clock

\* C20: a Create whose body fails validation, and an Update whose
\* identifier or body does, is answered 400 with an error for every failing
\* field (for the identifier alone when it is the identifier), and neither
\* the service nor the repository is called: nothing is stored, no
\* statement is sent and no default is applied.
C20_ValidationFirst ==
    [][\A w \in Workers : \A b \in Bodies :
        /\ (CreateEmployee_Call(w, {b}, TRUE) /\ served'[w].e = b
                /\ FailingFields(b) # << >>) =>
              /\ InvalidInput(resp'[w], FailingFields(b))
              /\ NothingPersisted(w)
        /\ \A idParam \in IdInputs :
              (UpdateEmployee_Call(w, {idParam}, {b}, TRUE)
                    /\ served'[w].path = idParam) =>
                  /\ (~ParseInt(idParam).ok \/ ~GreaterThan(ParseInt(idParam).val, 0)) =>
                        /\ InvalidInput(resp'[w], << "id" >>)
                        /\ NothingPersisted(w)
                  /\ ( /\ ParseInt(idParam).ok /\ GreaterThan(ParseInt(idParam).val, 0)
                       /\ served'[w].e = b
                       /\ FailingFields(b) # << >> ) =>
                        /\ InvalidInput(resp'[w], FailingFields(b))
                        /\ NothingPersisted(w)
      ]_vars

\* An Update of a stored employee whose body fails on all four fields has
\* been answered with the four errors.
C20_Witness ==
    /\ served[1].method = "PUT"
    /\ Small(ValidateID(served[1].path).id) \in Ids(table)
    /\ resp[1].code = StatusBadRequest
    /\ Len(resp[1].errors) = 4

\* The fields of a call of ValidateEmployee that violate their rule.
ViolatingFields(a) ==
    LET blank(name) == \A k \in 1..Len(name) : name[k] \in SpaceChars
        violates(field) ==
            \/ field = "email" /\ (a[1] = Empty \/ ~IsValidEmail(a[1]))
            \/ field = "employeeNumber" /\ a[2] = ""
            \/ field = "firstName" /\ blank(a[3])
            \/ field = "lastName" /\ blank(a[4])
    IN  SelectSeq(<< "email", "employeeNumber", "firstName", "lastName" >>,
                  violates)

\* C21: whatever the four arguments, ValidateEmployee reports every
\* violation and not only the first: its error list holds exactly one entry
\* for each violating field (email empty or malformed, employeeNumber empty,
\* firstName blank, lastName blank), in the order email, employeeNumber,
\* firstName, lastName, and IsValid holds exactly when the list is empty.
C21_AllViolationsReported ==
    validated.fn = "ValidateEmployee" =>
        LET r == validated.result
        IN  /\ [i \in 1..Len(r.Errors) |-> r.Errors[i].field]
                    = ViolatingFields(validated.args)
            /\ r.IsValid <=> (r.Errors = << >>)

\* ValidateEmployee was called with four violating arguments, the email
\* malformed and the names blank but not empty, and reported all four.
C21_Witness ==
    /\ validated.fn = "ValidateEmployee"
    /\ validated.args[1] # Empty
    /\ validated.args[3] # Empty
    /\ validated.args[4] # Empty
    /\ Len(validated.result.Errors) = 4
    /\ ~validated.result.IsValid

\* C22: whatever the string, ValidateID returns one of two things and never
\* both nor neither: a strictly positive identifier with no errors, when
\* the string parses as a base-10 integer above 0, or identifier 0 with a
\* single error on field id, "ID must be a valid integer" when the string
\* does not parse and "ID must be a positive number" when the parsed value
\* is 0 or less.
C22_IdOrErrors ==
    validated.fn = "ValidateID" =>
        LET r == validated.result
            p == ParseInt(validated.args)
        IN  IF p.ok /\ GreaterThan(p.val, 0)
            THEN r.id = p.val /\ GreaterThan(r.id, 0) /\ r.errs = << >>
            ELSE /\ r.id = FromInt(0)
                 /\ Len(r.errs) = 1
                 /\ r.errs[1].field = "id"
                 /\ r.errs[1].message =
                        IF ~p.ok THEN "ID must be a valid integer"
                        ELSE "ID must be a positive number"

\* ValidateID was called with a negative integer and answered with
\* identifier 0 and the error of a value that is not positive.
C22_Witness ==
    /\ validated.fn = "ValidateID"
    /\ validated.args = << "-", "5" >>
    /\ validated.result.id = FromInt(0)
    /\ validated.result.errs # << >>

\* Filter maps: each of the three keys left out, empty, and set to a value
\* stored rows hold or do not hold.
FilterMaps ==
    {Filters(d, st, p) :
        d \in {Absent, Filter(TRUE, ""), Filter(TRUE, "A"), Filter(TRUE, "B")},
        st \in {Absent, Filter(TRUE, ""), Filter(TRUE, StatusActive),
                Filter(TRUE, StatusRetired)},
        p \in {Absent, Filter(TRUE, ""), Filter(TRUE, "dev")}}

\* C23: on every store and for every filter map, repo.Count returns the
\* number of records repo.FindAll returns for the same filters with offset
\* 0 and a limit of the size of the store or more: both apply the same
\* conditions, an empty value counting as no condition, joined by AND.
C23_CountMatchesFindAll ==
    \A f \in FilterMaps : \A order \in Orders(Ids(table)) :
        \A limit \in Cardinality(table)..(MaxId + 1) :
            LET found == FindAll(table, limit, FromInt(0), f, order)
            IN  /\ found.err = ErrNone
                /\ Count(table, f).err = ErrNone
                /\ Count(table, f).count = Len(found.employees.items)

\* Of two stored employees, a listing from offset 0 with a limit above the
\* size of the store and all three filters set has returned one, and its
\* count is 1.
C23_Witness ==
    /\ Cardinality(table) = 2
    /\ pc[1] = "idle"
    /\ list[1].via = "service"
    /\ list[1].err = ErrNone
    /\ list[1].limit >= 2
    /\ list[1].offset = FromInt(0)
    /\ list[1].filters.department.v # ""
    /\ list[1].filters.status.v # ""
    /\ list[1].filters.position.v # ""
    /\ Len(list[1].employees.items) = 1
    /\ list[1].employees.items[1] \in table
    /\ list[1].total = 1

\* C24: with one request at a time, an operation that returns an error
\* leaves the stored employees as they were: a step that changes the table
\* and answers its request answers 201 or 204, and an Update whose write
\* was applied is answered 200; a Create or Update answered with a
\* conflict, an Update or Delete answered with not found changed nothing.
C24_ErrorsLeaveStore ==
    [][ /\ (pc'[1] = "idle" /\ table' # table) =>
              resp'[1].code \in {StatusCreated, StatusNoContent}
        /\ (pc[1] = "reselect" /\ pc'[1] = "idle") => resp'[1].code = StatusOK
        /\ (pc'[1] = "idle" /\ resp'[1].code >= StatusBadRequest
              /\ (pc[1] # "idle" \/ resp'[1] # resp[1])) => table' = table
      ]_vars

\* An Update of one of two stored employees with the other's email or
\* employee number has been answered with a conflict.
C24_Witness ==
    /\ Cardinality(table) = 2
    /\ pc[1] = "idle"
    /\ served[1].method = "PUT"
    /\ resp[1].code = StatusConflict
    /\ \E r \in table : r.id # Small(ValidateID(served[1].path).id)
                          /\ \/ r.email = served[1].e.email
                             \/ r.employeeNumber = served[1].e.employeeNumber

\* C25: a successful Update or Delete touches the record of its identifier
\* alone.  The UPDATE of a request leaves the identifiers stored as they
\* were and every row of another identifier as it was; a step answered 204
\* removes one row, of an identifier then noted as modified, and leaves the
\* others as they were; FindByID and the statements of a listing (FindAll,
\* Count) leave the table as it was.
C25_OnlyTheIdentifiedRecord ==
    [][\A w \in Workers :
        /\ (pc[w] = "update" /\ pc'[w] = "reselect") =>
              /\ Ids(table') = Ids(table)
              /\ \A r \in table : r.id # req[w].id => r \in table'
              /\ \A r \in table' : r.id # req[w].id => r \in table
        /\ (pc[w] = "idle" /\ pc'[w] = "idle" /\ table' # table
              /\ resp'[w].code = StatusNoContent) =>
              \E id \in Ids(table) \cap modified' :
                  table' = table \ {RowOf(table, id)}
        /\ (pc[w] = "idle" /\ pc'[w] = "idle" /\ resp'[w] # resp[w]
              /\ resp'[w].code \in {StatusOK, StatusNotFound}) => table' = table
        /\ list'[w] # list[w] => table' = table
      ]_vars

\* Of two stored employees one was deleted and the other, which an Update
\* had not touched, is still stored.
C25_Witness ==
    /\ Cardinality(issued) = 2
    /\ Cardinality(table) = 1
    /\ pc[2] = "idle"
    /\ resp[2].code = StatusNoContent
    /\ \E r \in table : r.id \notin modified /\ r.updatedAt = r.createdAt

\* C26: however an Update and a Delete of one stored employee interleave,
\* the Update is answered 200 whenever its UPDATE wrote the row and 404
\* only when its UPDATE wrote no row; it is never answered with an internal
\* failure after its write was applied.
C26_UpdateAgainstDelete ==
    [][\A w \in Workers :
        /\ (pc[w] = "reselect" /\ pc'[w] = "idle") =>
              /\ resp'[w].code # StatusInternalServerError
              /\ resp'[w].code = StatusOK
        /\ (pc[w] = "update" /\ pc'[w] = "idle"
              /\ resp'[w].code = StatusNotFound) => table' = table
      ]_vars

\* C27: however a listing interleaves with Creates and Deletes, the total
\* that EmployeeService.FindAll returns counts the rows of the store its
\* page was read from: the page never holds more records than the total,
\* and a page from offset 0 that is not full holds exactly the total.
C27_TotalOfTheSameStore ==
    [][\A w \in Workers :
        (pc[w] = "count" /\ pc'[w] = "idle") =>
            LET c == list'[w]
            IN  /\ Len(c.employees.items) <= c.total
                /\ (c.offset = FromInt(0) /\ Len(c.employees.items) < c.limit) =>
                      c.total = Len(c.employees.items)
      ]_vars

\* A call of EmployeeService.FindAll by worker w has returned without error.
Listed(w) ==
    /\ pc[w] = "idle"
    /\ list[w].via = "service"
    /\ list[w].err = ErrNone
    /\ list[w].limit > 0

\* C28: on a store that does not change, the pages of one filter and one
\* page size hold every matching record exactly once, records of one
\* creation time included: two different pages share no record, pages 1 and
\* 2 together hold every matching record when two pages are all there are,
\* and a page after the last is empty.
C28_PagesPartition ==
    \A u, v \in Workers :
        (Listed(u) /\ Listed(v) /\ list[u].filters = list[v].filters
            /\ list[u].limit = list[v].limit) =>
            LET a == list[u].employees.items
                b == list[v].employees.items
                rows == Matching(table, list[u].filters)
            IN  /\ list[u].offset # list[v].offset =>
                      \A i \in 1..Len(a) : \A j \in 1..Len(b) : a[i] # b[j]
                /\ ( /\ list[u].offset = FromInt(0)
                     /\ list[v].offset = FromInt(list[v].limit)
                     /\ Cardinality(rows) <= 2 * list[u].limit ) =>
                      \A r \in rows :
                          \/ \E i \in 1..Len(a) : a[i] = r
                          \/ \E j \in 1..Len(b) : b[j] = r
                /\ Small(list[u].offset) >= list[u].total => a = << >>

\* C29: for every page an int can hold, the largest included, the offset
\* that EmployeeService.FindAll passes to the repository is not negative
\* and is (page - 1) x pageSize, nothing of the product lost to the width
\* of the int.
C29_OffsetWithoutWrapAround ==
    [][\A w \in Workers :
        (pc[w] = "idle" /\ list'[w] # list[w] /\ list'[w].limit > 0) =>
            LET c == list'[w]
                product == Product(Dec(ServicePage(c.page)), c.limit)
            IN  /\ ~IsNegative(c.offset)
                /\ product[5] = 0
                /\ c.offset = SubSeq(product, 1, 4)
      ]_vars

\* C30: every request a handler takes is sent exactly one response, a
\* success only when the service returned no error, and after an error of
\* the service the error response alone.  Never more than one response is
\* written for a request, and what is written is the handler's response; a
\* Create answers 201 exactly when its row was inserted, a failed UPDATE is
\* answered with an error, a Delete answers 204 only when it removed the
\* row, a Get answers 200 only with a stored record, and a listing answers
\* 200 when FindAll and Count returned without error and 500 when not.
C30_ExactlyOneResponse ==
    [][\A w \in Workers :
        /\ Len(written'[w]) <= 1
        /\ resp'[w] # resp[w] /\ resp'[w] # NoResponse =>
              written'[w] = << resp'[w] >>
        /\ list'[w].response # list[w].response
              /\ list'[w].response # NoListResponse =>
              written'[w] = << list'[w].response >>
        /\ (pc[w] \in {"insert", "update", "reselect"} /\ pc'[w] = "idle") =>
              Len(written'[w]) = 1
        /\ (pc[w] = "insert" /\ pc'[w] = "idle") =>
              (resp'[w].code = StatusCreated <=> table' # table)
        /\ (pc[w] = "update" /\ pc'[w] = "idle") =>
              /\ resp'[w].code >= StatusBadRequest
              /\ ~resp'[w].hasBody
        /\ (pc[w] = "idle" /\ pc'[w] = "idle" /\ resp'[w] # resp[w]) =>
              /\ resp'[w].code = StatusNoContent => table' # table
              /\ resp'[w].code = StatusOK => resp'[w].body \in table
              /\ resp'[w].code >= StatusBadRequest => ~resp'[w].hasBody
        /\ (pc[w] = "count" /\ pc'[w] = "idle" /\ list[w].via = "handler") =>
              /\ Len(written'[w]) = 1
              /\ list'[w].err = ErrNone
              /\ list'[w].response.code = StatusOK
        /\ (pc[w] = "idle" /\ pc'[w] = "idle" /\ list'[w] # list[w]
              /\ list'[w].via = "handler") =>
              /\ Len(written'[w]) = 1
              /\ list'[w].response.code \in
                    {StatusBadRequest, StatusInternalServerError}
              /\ list'[w].response.code = StatusInternalServerError <=>
                    list'[w].err # ErrNone
              /\ list'[w].response.data = NilSlice
      ]_vars

\* A listing whose query the storage rejected was sent the one response
\* 500, and a Create that met a conflict the one response 409.
C30_Witness ==
    /\ list[1].via = "handler"
    /\ list[1].err # ErrNone
    /\ written[1] = << list[1].response >>
    /\ list[1].response.code = StatusInternalServerError
    /\ resp[2].code = StatusConflict
    /\ written[2] = << resp[2] >>

====
